---- MODULE Spec2Model ----
(***************************************************************************)
(* A model of src/src/spidevioctl.rs: the spidev flag constants, the       *)
(* SpidevTransfer constructors, the generic ioctl helpers, the typed       *)
(* accessors and xfer.                                                     *)
(*                                                                         *)
(* Representation.  A u8 is a natural 0..255.  A u32 is the sequence of    *)
(* its four bytes, least significant first (TLC's integers are 32-bit      *)
(* signed and cannot hold every u32).  A value crosses the ioctl boundary  *)
(* as size_of::<T>() bytes.  io::Result<T> is a record with a kind         *)
(* ("Ok"/"Err"), a value and an errno name; the () that xfer returns is    *)
(* Unit.                                                                   *)
(*                                                                         *)
(* The ioctl primitive (ioctl::op_read, op_write, read, write) is not part *)
(* of the source file; it is modelled after spec.md sections 4.1 and 6,    *)
(* over a device that stores what is written to it per operation number.   *)
(***************************************************************************)
EXTENDS Integers, Sequences, FiniteSets, TLC

\* Largest length of a caller's data slice and of a read request.
MaxLen == 3

\* Largest length of the slice handed to xfer.
MaxXferLen == 1

\* Bytes a caller's data slice is made of.
DataBytes == {0, 165}

\* All slices of length at most n over DataBytes.
Slices(n) == UNION {[1..k -> DataBytes] : k \in 0..n}

(***************************************************************************)
(* Bit operations on naturals (the | of line 24, the masks of bitflags!).  *)
(***************************************************************************)
RECURSIVE BitAnd(_, _)
BitAnd(a, b) ==
    IF a = 0 \/ b = 0 THEN 0
    ELSE (a % 2) * (b % 2) + 2 * BitAnd(a \div 2, b \div 2)

RECURSIVE BitOr(_, _)
BitOr(a, b) ==
    IF a = 0 THEN b
    ELSE IF b = 0 THEN a
    ELSE (IF a % 2 = 1 \/ b % 2 = 1 THEN 1 ELSE 0)
         + 2 * BitOr(a \div 2, b \div 2)

\* The positions of the bits set in a.
RECURSIVE BitsOf(_)
BitsOf(a) ==
    IF a = 0 THEN {}
    ELSE (IF a % 2 = 1 THEN {0} ELSE {}) \cup {i + 1 : i \in BitsOf(a \div 2)}

(***************************************************************************)
(* SpiModeFlags and SpidevOptionFlags (lines 17-37).                       *)
(***************************************************************************)
SPI_CPHA == 1

\* A slip in the polarity bit: it lands on bit 2.
SPI_CPOL_slip == SPI_CPHA * 4

SPI_CPOL == 2
SPI_MODE_0 == 0
SPI_MODE_1 == SPI_CPHA
SPI_MODE_2 == SPI_CPOL
SPI_MODE_3 == BitOr(SPI_CPOL, SPI_CPHA)

SPI_CS_HIGH == 4
SPI_LSB_FIRST == 8
SPI_3WIRE == 16
SPI_LOOP == 32
SPI_NO_CS == 64
SPI_READY == 128

NamedModes == {SPI_MODE_0, SPI_MODE_1, SPI_MODE_2, SPI_MODE_3}

OptionFlags ==
    {SPI_CS_HIGH, SPI_LSB_FIRST, SPI_3WIRE, SPI_LOOP, SPI_NO_CS, SPI_READY}

\* bitflags!: the union of every flag of SpiModeFlags.
RECURSIVE OrAll(_)
OrAll(S) ==
    IF S = {} THEN 0
    ELSE LET x == CHOOSE y \in S : TRUE IN BitOr(x, OrAll(S \ {x}))

SpiModeFlagsAll == OrAll({SPI_CPHA, SPI_CPOL} \cup NamedModes)

\* bitflags!: the values a SpiModeFlags can hold (no bit outside all()).
SpiModeFlags == {m \in 0..255 : BitAnd(m, SpiModeFlagsAll) = m}

(***************************************************************************)
(* Ioctl numbers (lines 39-46).                                            *)
(***************************************************************************)
SPI_IOC_MAGIC == 107

SPI_IOC_NR_TRANSFER == 0
SPI_IOC_NR_MODE == 1
SPI_IOC_NR_LSB_FIRST == 2
SPI_IOC_NR_BITS_PER_WORD == 3

\* A copy-and-paste slip: max-speed under the bits-per-word number.
SPI_IOC_NR_MAX_SPEED_HZ_clash == SPI_IOC_NR_BITS_PER_WORD

SPI_IOC_NR_MAX_SPEED_HZ == 4
SPI_IOC_NR_MODE32 == 5

Nrs == {SPI_IOC_NR_TRANSFER, SPI_IOC_NR_MODE, SPI_IOC_NR_LSB_FIRST,
        SPI_IOC_NR_BITS_PER_WORD, SPI_IOC_NR_MAX_SPEED_HZ, SPI_IOC_NR_MODE32}

\* mem::size_of::<T>() for the types the accessors use.
size_of(T) == IF T = "u8" THEN 1 ELSE 4

\* The width of struct spi_ioc_transfer: u64, u64, u32, u32, u16, u8, u8, u32.
size_of_spi_ioc_transfer == 8 + 8 + 4 + 4 + 2 + 1 + 1 + 4

\* The bytes of a value of type T, and the value those bytes stand for.
Encode(T, v) == IF T = "u8" THEN <<v>> ELSE v
Decode(T, bytes) == IF T = "u8" THEN bytes[1] ELSE bytes

(***************************************************************************)
(* Results.                                                                *)
(***************************************************************************)
Ok(v) == [kind |-> "Ok", val |-> v, err |-> "OK"]
Err(e) == [kind |-> "Err", val |-> "none", err |-> e]
Unit == [kind |-> "Unit", val |-> "unit", err |-> "OK"]
IsOk(r) == r.kind = "Ok"
IsErr(r) == r.kind = "Err"

(***************************************************************************)
(* The ioctl primitive and the device behind it.  A kernel k is a record   *)
(* [regs, open, errno]: what the device stores per operation number, the   *)
(* descriptors that are open, and the errno the device answers the next    *)
(* request with ("OK": it serves the request).                             *)
(***************************************************************************)
op_read(magic, nr, size) ==
    [dir |-> "read", magic |-> magic, nr |-> nr, size |-> size]

op_write(magic, nr, size) ==
    [dir |-> "write", magic |-> magic, nr |-> nr, size |-> size]

ZeroBuf(n) == [i \in 1..n |-> 0]

\* The kernel fills the caller's buffer with what it stores.
Fill(buf, stored) ==
    [i \in 1..Len(buf) |-> IF i <= Len(stored) THEN stored[i] ELSE buf[i]]

ioctl_read(k, fd, op) ==
    IF fd \notin k.open THEN [ret |-> Err("EBADF"), regs |-> k.regs]
    ELSE IF k.errno # "OK" THEN [ret |-> Err(k.errno), regs |-> k.regs]
    ELSE [ret |-> Ok(Fill(ZeroBuf(op.size), k.regs[op.nr])), regs |-> k.regs]

ioctl_write(k, fd, op, bytes) ==
    IF fd \notin k.open THEN [ret |-> Err("EBADF"), regs |-> k.regs]
    ELSE IF k.errno # "OK" THEN [ret |-> Err(k.errno), regs |-> k.regs]
    ELSE [ret |-> Ok("unit"),
          regs |-> [k.regs EXCEPT ![op.nr] = Fill(ZeroBuf(op.size), bytes)]]

\* One entry of the log of the syscalls a call issues.
Syscall(fd, op, bytes, ret) ==
    [fd |-> fd, op |-> op, data |-> bytes, ret |-> ret]

(***************************************************************************)
(* spidev_ioc_read and spidev_ioc_write (lines 103-113).  Each returns the *)
(* call's result, the syscalls it issued and the device's registers after. *)
(***************************************************************************)
\* A helper that tries once more when the syscall fails.
spidev_ioc_read_retry(k, fd, nr, T) ==
    LET size == size_of(T)
        op == op_read(SPI_IOC_MAGIC, nr, size)
        r1 == ioctl_read(k, fd, op)
        r2 == ioctl_read(k, fd, op)
    IN  IF IsOk(r1.ret)
        THEN [ret |-> Ok(Decode(T, r1.ret.val)),
              sys |-> <<Syscall(fd, op, <<>>, r1.ret)>>,
              regs |-> r1.regs]
        ELSE [ret |-> IF IsOk(r2.ret) THEN Ok(Decode(T, r2.ret.val)) ELSE r2.ret,
              sys |-> <<Syscall(fd, op, <<>>, r1.ret),
                        Syscall(fd, op, <<>>, r2.ret)>>,
              regs |-> r2.regs]

spidev_ioc_read(k, fd, nr, T) ==
    LET size == size_of(T)
        op == op_read(SPI_IOC_MAGIC, nr, size)
        r == ioctl_read(k, fd, op)
    IN  [ret |-> IF IsOk(r.ret) THEN Ok(Decode(T, r.ret.val)) ELSE r.ret,
         sys |-> <<Syscall(fd, op, <<>>, r.ret)>>,
         regs |-> r.regs]

spidev_ioc_write(k, fd, nr, T, data) ==
    LET size == size_of(T)
        op == op_write(SPI_IOC_MAGIC, nr, size)
        bytes == Encode(T, data)
        r == ioctl_write(k, fd, op, bytes)
    IN  [ret |-> r.ret,
         sys |-> <<Syscall(fd, op, bytes, r.ret)>>,
         regs |-> r.regs]

(***************************************************************************)
(* The typed accessors (lines 115-154) and xfer (line 156).                *)
(***************************************************************************)
get_mode(k, fd) == spidev_ioc_read(k, fd, SPI_IOC_NR_MODE, "u8")

set_mode(k, fd, mode) == spidev_ioc_write(k, fd, SPI_IOC_NR_MODE, "u8", mode)

\* A decoder that takes only the byte 1 for true.
get_lsb_first_one(k, fd) ==
    LET r == spidev_ioc_read(k, fd, SPI_IOC_NR_LSB_FIRST, "u8")
    IN  IF IsOk(r.ret) THEN [r EXCEPT !.ret = Ok(r.ret.val = 1)] ELSE r

get_lsb_first(k, fd) ==
    LET r == spidev_ioc_read(k, fd, SPI_IOC_NR_LSB_FIRST, "u8")
    IN  IF IsOk(r.ret) THEN [r EXCEPT !.ret = Ok(r.ret.val # 0)] ELSE r

set_lsb_first(k, fd, lsb_first) ==
    LET lsb_first_value == IF lsb_first THEN 1 ELSE 0
    IN  spidev_ioc_write(k, fd, SPI_IOC_NR_LSB_FIRST, "u8", lsb_first_value)

get_bits_per_word(k, fd) ==
    spidev_ioc_read(k, fd, SPI_IOC_NR_BITS_PER_WORD, "u8")

set_bits_per_word(k, fd, bits_per_word) ==
    spidev_ioc_write(k, fd, SPI_IOC_NR_BITS_PER_WORD, "u8", bits_per_word)

get_max_speed_hz(k, fd) ==
    spidev_ioc_read(k, fd, SPI_IOC_NR_MAX_SPEED_HZ, "u32")

set_max_speed_hz(k, fd, max_speed_hz) ==
    spidev_ioc_write(k, fd, SPI_IOC_NR_MAX_SPEED_HZ, "u32", max_speed_hz)

\* pub fn xfer(fd: RawFd, tx_buf: &[u8]) {}
xfer(k, fd, tx_buf) == [ret |-> Unit, sys |-> <<>>, regs |-> k.regs]

(***************************************************************************)
(* SpidevTransfer and its constructors (lines 67-101).                     *)
(***************************************************************************)
None == [some |-> FALSE, buf |-> <<>>]
Some(b) == [some |-> TRUE, buf |-> b]

\* #[derive(Default)]
DefaultTransfer ==
    [tx_buf |-> None, rx_buf |-> None, len |-> 0, speed_hz |-> 0,
     delay_usecs |-> 0, bits_per_word |-> 0, cs_change |-> 0, pad |-> 0]

\* Vec::with_capacity: room for n elements, none of them there yet.
with_capacity(n) == [buf |-> <<>>, cap |-> n]

\* Vec::into_boxed_slice: the elements of the vector, the spare room dropped.
into_boxed_slice(v) == v.buf

\* The two behaviours clone_from_slice has had: it copies as many elements
\* as both slices hold, or it panics when the lengths differ.
CloneSemantics == {"shorter", "same_length"}

clone_from_slice(dst, src, sem) ==
    IF sem = "same_length" /\ Len(dst) # Len(src)
    THEN [panic |-> TRUE, buf |-> dst]
    ELSE [panic |-> FALSE,
          buf |-> [i \in 1..Len(dst) |->
                     IF i <= Len(src) THEN src[i] ELSE dst[i]]]

read(length) ==
    LET rx_buf_vec == with_capacity(length)
    IN  [DefaultTransfer EXCEPT !.tx_buf = None,
                                !.rx_buf = Some(into_boxed_slice(rx_buf_vec)),
                                !.len = length]

write(tx_buf, sem) ==
    LET rx_buf_vec == with_capacity(Len(tx_buf))
        tx_buf_vec == with_capacity(Len(tx_buf))
        c == clone_from_slice(tx_buf_vec.buf, tx_buf, sem)
        cloned == [tx_buf_vec EXCEPT !.buf = c.buf]
    IN  [panic |-> c.panic,
         transfer |->
            [DefaultTransfer EXCEPT !.tx_buf = Some(into_boxed_slice(cloned)),
                                    !.rx_buf = Some(into_boxed_slice(rx_buf_vec)),
                                    !.len = Len(tx_buf)]]

(***************************************************************************)
(* State.                                                                  *)
(*   regs     what the device stores, per operation number (bytes)         *)
(*   openFds  the descriptors the caller holds open                        *)
(*   sent     per field, the value of the last set_X that succeeded        *)
(*   call     the last call that completed: its name, arguments, the       *)
(*            errno the device was answering with, the syscalls it issued  *)
(*            and what it returned                                         *)
(*   desc     the last SpidevTransfer a constructor returned (<<>>: none)  *)
(***************************************************************************)
VARIABLES regs, openFds, sent, call, desc

vars == <<regs, openFds, sent, call, desc>>

\* Inputs.
AllFds == {3, 4}
Errnos == {"OK", "EIO"}
LsbInitBytes == {0, 1, 2, 255}
BitsValues == {8, 16}
SpeedValues == {<<64, 66, 15, 0>>, <<255, 255, 255, 255>>}

Kernel(e) == [regs |-> regs, open |-> openFds, errno |-> e]

Unset(v) == [set |-> FALSE, val |-> v]

Init ==
    /\ \E b \in LsbInitBytes :
         regs = [n \in Nrs |->
                   IF n = SPI_IOC_NR_LSB_FIRST THEN <<b>>
                   ELSE IF n = SPI_IOC_NR_MODE THEN <<0>>
                   ELSE IF n = SPI_IOC_NR_BITS_PER_WORD THEN <<8>>
                   ELSE IF n = SPI_IOC_NR_TRANSFER THEN <<>>
                   ELSE <<32, 161, 7, 0>>]
    /\ openFds = {3}
    /\ sent = [mode |-> Unset(0), lsb_first |-> Unset(FALSE),
               bits_per_word |-> Unset(0), max_speed_hz |-> Unset(<<0, 0, 0, 0>>)]
    /\ call = [name |-> "none", fd |-> 0, arg |-> "none", kerr |-> "OK",
               sys |-> <<>>, ret |-> Unit]
    /\ desc = <<>>

\* A call on the device completes with outcome r.
Returns(name, fd, arg, e, r) ==
    /\ call' = [name |-> name, fd |-> fd, arg |-> arg, kerr |-> e,
                sys |-> r.sys, ret |-> r.ret]
    /\ regs' = r.regs

\* A set_X of field f completes with outcome r.
Sets(f, arg, r) ==
    sent' = IF IsOk(r.ret) THEN [sent EXCEPT ![f] = [set |-> TRUE, val |-> arg]]
            ELSE sent

GetMode ==
    \E fd \in AllFds, e \in Errnos :
        /\ Returns("get_mode", fd, "none", e, get_mode(Kernel(e), fd))
        /\ UNCHANGED <<openFds, sent, desc>>

SetMode ==
    \E fd \in AllFds, e \in Errnos, mode \in SpiModeFlags :
        LET r == set_mode(Kernel(e), fd, mode)
        IN  /\ Returns("set_mode", fd, mode, e, r)
            /\ Sets("mode", mode, r)
            /\ UNCHANGED <<openFds, desc>>

GetLsbFirst ==
    \E fd \in AllFds, e \in Errnos :
        /\ Returns("get_lsb_first", fd, "none", e, get_lsb_first(Kernel(e), fd))
        /\ UNCHANGED <<openFds, sent, desc>>

SetLsbFirst ==
    \E fd \in AllFds, e \in Errnos, lsb_first \in BOOLEAN :
        LET r == set_lsb_first(Kernel(e), fd, lsb_first)
        IN  /\ Returns("set_lsb_first", fd, lsb_first, e, r)
            /\ Sets("lsb_first", lsb_first, r)
            /\ UNCHANGED <<openFds, desc>>

GetBitsPerWord ==
    \E fd \in AllFds, e \in Errnos :
        /\ Returns("get_bits_per_word", fd, "none", e,
                   get_bits_per_word(Kernel(e), fd))
        /\ UNCHANGED <<openFds, sent, desc>>

SetBitsPerWord ==
    \E fd \in AllFds, e \in Errnos, bits_per_word \in BitsValues :
        LET r == set_bits_per_word(Kernel(e), fd, bits_per_word)
        IN  /\ Returns("set_bits_per_word", fd, bits_per_word, e, r)
            /\ Sets("bits_per_word", bits_per_word, r)
            /\ UNCHANGED <<openFds, desc>>

GetMaxSpeedHz ==
    \E fd \in AllFds, e \in Errnos :
        /\ Returns("get_max_speed_hz", fd, "none", e,
                   get_max_speed_hz(Kernel(e), fd))
        /\ UNCHANGED <<openFds, sent, desc>>

SetMaxSpeedHz ==
    \E fd \in AllFds, e \in Errnos, max_speed_hz \in SpeedValues :
        LET r == set_max_speed_hz(Kernel(e), fd, max_speed_hz)
        IN  /\ Returns("set_max_speed_hz", fd, max_speed_hz, e, r)
            /\ Sets("max_speed_hz", max_speed_hz, r)
            /\ UNCHANGED <<openFds, desc>>

Xfer ==
    \E fd \in AllFds, e \in Errnos, tx_buf \in Slices(MaxXferLen) :
        /\ Returns("xfer", fd, tx_buf, e, xfer(Kernel(e), fd, tx_buf))
        /\ UNCHANGED <<openFds, sent, desc>>

Read ==
    \E length \in 0..MaxLen :
        /\ desc' = <<read(length)>>
        /\ call' = [name |-> "read", fd |-> 0, arg |-> length, kerr |-> "OK",
                    sys |-> <<>>, ret |-> "transfer"]
        /\ UNCHANGED <<regs, openFds, sent>>

\* SpidevTransfer::default(), public through #[derive(Default)].
Default ==
    /\ desc' = <<DefaultTransfer>>
    /\ call' = [name |-> "default", fd |-> 0, arg |-> "none", kerr |-> "OK",
                sys |-> <<>>, ret |-> "transfer"]
    /\ UNCHANGED <<regs, openFds, sent>>

Write ==
    \E tx_buf \in Slices(MaxLen), sem \in CloneSemantics :
        LET w == write(tx_buf, sem)
        IN  /\ desc' = IF w.panic THEN desc ELSE <<w.transfer>>
            /\ call' = [name |-> "write", fd |-> 0, arg |-> tx_buf,
                        kerr |-> "OK", sys |-> <<>>,
                        ret |-> IF w.panic THEN "panic" ELSE "transfer"]
            /\ UNCHANGED <<regs, openFds, sent>>

\* The device: the accessors and xfer.
Next ==
    \/ GetMode
    \/ SetMode
    \/ GetLsbFirst
    \/ SetLsbFirst
    \/ GetBitsPerWord
    \/ SetBitsPerWord
    \/ GetMaxSpeedHz
    \/ SetMaxSpeedHz
    \/ Xfer

Spec == Init /\ [][Next]_vars

\* The transfer descriptors: the constructors of SpidevTransfer.
NextTransfer ==
    \/ Read
    \/ Write
    \/ Default

SpecTransfer == Init /\ [][NextTransfer]_vars

(***************************************************************************)
(* Properties.                                                             *)
(***************************************************************************)
Getters ==
    {"get_mode", "get_lsb_first", "get_bits_per_word", "get_max_speed_hz"}

Setters ==
    {"set_mode", "set_lsb_first", "set_bits_per_word", "set_max_speed_hz"}

\* The device does not serve the call's requests, and the errno it answers.
DeviceFails(c) == c.fd \notin openFds \/ c.kerr # "OK"
FailureOf(c) == IF c.fd \notin openFds THEN "EBADF" ELSE c.kerr

\* C1: write(data) returns a descriptor whose transmit buffer is present and
\* holds exactly the bytes of data, whose receive buffer is present and as
\* long as data, and whose len is the length of data.
C1_WriteCopiesData ==
    call.name = "write" =>
        /\ call.ret = "transfer"
        /\ Len(desc) = 1
        /\ desc[1].tx_buf.some
        /\ desc[1].tx_buf.buf = call.arg
        /\ desc[1].rx_buf.some
        /\ Len(desc[1].rx_buf.buf) = Len(call.arg)
        /\ desc[1].len = Len(call.arg)

\* C2: read(length) returns a descriptor with no transmit buffer, a receive
\* buffer of exactly length bytes, len = length and every override zero.
C2_ReadAllocatesLength ==
    call.name = "read" =>
        /\ Len(desc) = 1
        /\ ~desc[1].tx_buf.some
        /\ desc[1].rx_buf.some
        /\ Len(desc[1].rx_buf.buf) = call.arg
        /\ desc[1].len = call.arg
        /\ desc[1].speed_hz = 0
        /\ desc[1].delay_usecs = 0
        /\ desc[1].bits_per_word = 0
        /\ desc[1].cs_change = 0
        /\ desc[1].pad = 0

\* C3: xfer issues exactly one syscall on the given descriptor: the write
\* ioctl of operation 0 sized as struct spi_ioc_transfer.
C3_XferIssuesTransferIoctl ==
    call.name = "xfer" =>
        /\ Len(call.sys) = 1
        /\ call.sys[1].fd = call.fd
        /\ call.sys[1].op =
               op_write(SPI_IOC_MAGIC, SPI_IOC_NR_TRANSFER,
                        size_of_spi_ioc_transfer)

\* C4: when the device fails the request, every accessor and xfer return
\* that failure, unchanged, and never success.
C4_FailurePropagates ==
    (call.name \in Getters \cup Setters \cup {"xfer"} /\ DeviceFails(call)) =>
        /\ IsErr(call.ret)
        /\ call.ret.err = FailureOf(call)

\* The part of C4 that is about the accessors alone.
AccessorsPropagateFailure ==
    (call.name \in Getters \cup Setters /\ DeviceFails(call)) =>
        /\ IsErr(call.ret)
        /\ call.ret.err = FailureOf(call)
        /\ \A i \in 1..Len(call.sys) : IsErr(call.sys[i].ret)

\* C5: in every descriptor a constructor returns, two present buffers have
\* the same length, and that length is len.
C5_BuffersMatchLen ==
    \A i \in 1..Len(desc) :
        (desc[i].tx_buf.some /\ desc[i].rx_buf.some) =>
            /\ Len(desc[i].tx_buf.buf) = Len(desc[i].rx_buf.buf)
            /\ Len(desc[i].tx_buf.buf) = desc[i].len

\* No constructor returns a descriptor whose two buffers differ in length.
NoUnequalBuffers ==
    \A i \in 1..Len(desc) :
        (desc[i].tx_buf.some /\ desc[i].rx_buf.some) =>
            Len(desc[i].tx_buf.buf) = Len(desc[i].rx_buf.buf)

\* C7: set_lsb_first(b) writes the byte 1 for true and 0 for false and
\* nothing else; get_lsb_first returns true exactly when the byte the
\* device holds is not zero, for every byte 0..255; so a get after a
\* successful set(b) returns b.
C7_LsbFirstRoundTrip ==
    /\ call.name = "set_lsb_first" =>
           /\ Len(call.sys) = 1
           /\ call.sys[1].data \in {<<0>>, <<1>>}
           /\ call.sys[1].data = <<IF call.arg THEN 1 ELSE 0>>
    /\ (call.name = "get_lsb_first" /\ IsOk(call.ret)) =>
           /\ call.ret.val = (regs[SPI_IOC_NR_LSB_FIRST][1] # 0)
           /\ sent.lsb_first.set => call.ret.val = sent.lsb_first.val
    /\ \A b \in 0..255, fd \in openFds :
           LET k == [regs |-> [regs EXCEPT ![SPI_IOC_NR_LSB_FIRST] = <<b>>],
                     open |-> openFds, errno |-> "OK"]
           IN  get_lsb_first(k, fd).ret = Ok(b # 0)

\* A get_lsb_first that returned true after set_lsb_first(true) succeeded.
C7_Witness ==
    /\ call.name = "get_lsb_first"
    /\ IsOk(call.ret)
    /\ sent.lsb_first.set
    /\ sent.lsb_first.val
    /\ call.ret.val
    /\ regs[SPI_IOC_NR_LSB_FIRST] = <<1>>

\* C8: get_max_speed_hz returns the value of the last set_max_speed_hz that
\* succeeded, whatever sets of the other fields came in between; and so for
\* each field: a set of one field never changes what a get of another
\* returns.
C8_MaxSpeedRoundTrip ==
    /\ (call.name = "get_max_speed_hz" /\ IsOk(call.ret)
            /\ sent.max_speed_hz.set) =>
           call.ret.val = sent.max_speed_hz.val
    /\ \A fd \in openFds :
           /\ sent.max_speed_hz.set =>
                  get_max_speed_hz(Kernel("OK"), fd).ret
                      = Ok(sent.max_speed_hz.val)
           /\ sent.mode.set =>
                  get_mode(Kernel("OK"), fd).ret = Ok(sent.mode.val)
           /\ sent.lsb_first.set =>
                  get_lsb_first(Kernel("OK"), fd).ret = Ok(sent.lsb_first.val)
           /\ sent.bits_per_word.set =>
                  get_bits_per_word(Kernel("OK"), fd).ret
                      = Ok(sent.bits_per_word.val)

\* A get_max_speed_hz that returned 0xFFFFFFFF, the last value set, with
\* every other field set as well.
C8_Witness ==
    /\ call.name = "get_max_speed_hz"
    /\ IsOk(call.ret)
    /\ sent.max_speed_hz.set
    /\ sent.max_speed_hz.val = <<255, 255, 255, 255>>
    /\ call.ret.val = <<255, 255, 255, 255>>
    /\ sent.mode.set
    /\ sent.lsb_first.set
    /\ sent.bits_per_word.set

\* C9: mode 0 is 0, mode 1 the phase bit (bit 0), mode 2 the polarity bit
\* (bit 1), mode 3 both; no mode has a bit above bit 1; no option flag has
\* bit 0 or bit 1; so set_mode never writes a byte with a bit above bit 1.
C9_ModeComposition ==
    /\ SPI_MODE_0 = 0
    /\ BitsOf(SPI_CPHA) = {0}
    /\ BitsOf(SPI_CPOL) = {1}
    /\ SPI_MODE_1 = SPI_CPHA
    /\ SPI_MODE_2 = SPI_CPOL
    /\ BitsOf(SPI_MODE_3) = BitsOf(SPI_CPHA) \cup BitsOf(SPI_CPOL)
    /\ \A m \in NamedModes : BitsOf(m) \subseteq {0, 1}
    /\ \A f \in OptionFlags : BitsOf(f) \cap {0, 1} = {}
    /\ call.name = "set_mode" =>
           /\ BitsOf(call.sys[1].data[1]) \subseteq {0, 1}
           /\ \A f \in OptionFlags : BitAnd(call.sys[1].data[1], f) = 0

\* set_mode(SPI_MODE_3) succeeded and the device holds phase and polarity.
C9_Witness ==
    /\ call.name = "set_mode"
    /\ call.arg = SPI_MODE_3
    /\ IsOk(call.ret)
    /\ BitsOf(regs[SPI_IOC_NR_MODE][1]) = {0, 1}

\* C10: every accessor call issues exactly one ioctl, on the descriptor it
\* was given: a getter a read request, a setter a write request, of 1 byte
\* for mode, lsb-first and bits-per-word and of 4 bytes for max-speed; a
\* failed syscall is the call's result, with no second syscall; the open
\* descriptors stay as they were.
C10_OneSyscallPerCall ==
    /\ call.name \in Getters \cup Setters =>
           /\ Len(call.sys) = 1
           /\ call.sys[1].fd = call.fd
           /\ call.sys[1].op.dir =
                  (IF call.name \in Getters THEN "read" ELSE "write")
           /\ call.sys[1].op.size =
                  (IF call.name \in {"get_max_speed_hz", "set_max_speed_hz"}
                   THEN 4 ELSE 1)
           /\ IsErr(call.sys[1].ret) => call.ret = call.sys[1].ret
    /\ openFds = {3}

\* A get_max_speed_hz whose only syscall, a 4-byte read request, failed.
C10_Witness ==
    /\ call.name = "get_max_speed_hz"
    /\ IsErr(call.ret)
    /\ Len(call.sys) = 1
    /\ call.sys[1].op.size = 4
    /\ call.sys[1].op.dir = "read"

====
